---- MODULE Spec2Model ----
(***************************************************************************)
(* A model of jque (src/jque/__init__.py): the operator table, the record  *)
(* matcher _check_record, the parallel evaluator _parallel_query and the   *)
(* two paths of jque.query, with the constructor jque.__init__ that wraps  *)
(* results.                                                                *)
(*                                                                         *)
(* Python values are encoded as records [t, v, xs]:                        *)
(*   t = "int"   the integer v                                             *)
(*   t = "str"   the one-character string number v (ordered by v; for      *)
(*               one-character strings `x in y` is equality)               *)
(*   t = "list"  the list xs of scalars                                    *)
(*   t = "absent" no value: the key is not in the mapping                  *)
(* A record of the collection is a function from Fields to such values.    *)
(* A predicate (qr) is the sequence of its (key, qualifier) items in dict  *)
(* iteration order; keys are distinct.  A qualifier is a literal, a dict   *)
(* of (operator, comparand) items in iteration order, or a function.       *)
(*                                                                         *)
(* The decorators of lines 46 and 186 (deco's concurrent and synchronized, *)
(* or the identity when deco is not installed) leave _parallel_query the   *)
(* loop that is written: it calls _check_record, which is not decorated.   *)
(* A DataFrame (is_pandas) exists only where pandas is installed; its      *)
(* column labels are the field names, so they are strings.                 *)
(***************************************************************************)
EXTENDS Integers, Sequences, FiniteSets, TLC

VARIABLES
    data,        \* self.data: the sequence of records
    parallel,    \* self.parallel
    is_pandas,   \* self._is_pandas
    qr,          \* query argument qr
    wrap,        \* query argument wrap
    limit,       \* query argument limit (None or an integer)
    pc,          \* position inside the running call
    i,           \* loop index (1-based position of the next record)
    results,     \* _parallel_query: the boolean vector being filled
    filtered,    \* query: filtered_data / filtered_results
    ret,         \* what the finished call returned or raised
    calls,       \* log of the invocations of _check_record: record index and outcome
    origin       \* the call whose wrapped result the running call queries, or NoOrigin

vars == <<data, parallel, is_pandas, qr, wrap, limit, pc, i, results,
          filtered, ret, calls, origin>>

-----------------------------------------------------------------------------
(* Bounds of the model *)

MaxLen == 2
MaxLimit == 1
MaxOps == 2

-----------------------------------------------------------------------------
(* Python values *)

PyInt(n) == [t |-> "int", v |-> n, xs |-> <<>>]
PyStr(n) == [t |-> "str", v |-> n, xs |-> <<>>]
PyList(s) == [t |-> "list", v |-> 0, xs |-> s]
Absent == [t |-> "absent", v |-> 0, xs |-> <<>>]

Fields == {"a", "b"}

\* x == y
PyEq(x, y) == x = y

\* x < y: defined between two ints and between two strs, TypeError otherwise
PyLt(x, y) ==
    IF x.t = y.t /\ x.t \in {"int", "str"}
    THEN (IF x.v < y.v THEN "True" ELSE "False")
    ELSE "TypeError"

PyLe(x, y) ==
    IF x.t = y.t /\ x.t \in {"int", "str"}
    THEN (IF x.v <= y.v THEN "True" ELSE "False")
    ELSE "TypeError"

\* x in y: membership in a list, substring of a str, TypeError otherwise
PyIn(x, y) ==
    CASE y.t = "list" ->
           (IF \E j \in 1..Len(y.xs) : PyEq(x, y.xs[j]) THEN "True" ELSE "False")
      [] y.t = "str" ->
           (IF x.t = "str" THEN (IF x.v = y.v THEN "True" ELSE "False")
            ELSE "TypeError")
      [] OTHER -> "TypeError"

PyNot(b) == CASE b = "True" -> "False" [] b = "False" -> "True" [] OTHER -> b

OPERATORS == {"$eq", "$neq", "$lt", "$lte", "$gt", "$gte", "$in", "$nin"}

\* _OPERATORS[op](x, y), with "$lte" written as x < y
ApplyOperatorLteStrict(op, x, y) ==
    CASE op = "$eq" -> (IF PyEq(x, y) THEN "True" ELSE "False")
      [] op = "$neq" -> (IF PyEq(x, y) THEN "False" ELSE "True")
      [] op = "$lt" -> PyLt(x, y)
      [] op = "$lte" -> PyLt(x, y)
      [] op = "$gt" -> PyLt(y, x)
      [] op = "$gte" -> PyLe(y, x)
      [] op = "$in" -> PyIn(x, y)
      [] op = "$nin" -> PyNot(PyIn(x, y))

\* _OPERATORS[op](x, y)
ApplyOperator(op, x, y) ==
    CASE op = "$eq" -> (IF PyEq(x, y) THEN "True" ELSE "False")
      [] op = "$neq" -> (IF PyEq(x, y) THEN "False" ELSE "True")
      [] op = "$lt" -> PyLt(x, y)
      [] op = "$lte" -> PyLe(x, y)
      [] op = "$gt" -> PyLt(y, x)
      [] op = "$gte" -> PyLe(y, x)
      [] op = "$in" -> PyIn(x, y)
      [] op = "$nin" -> PyNot(PyIn(x, y))

\* The test functions a caller passes as qualifiers:
\*   "is_one"   lambda v: v == 1
\*   "positive" lambda v: v > 0
CallFunction(fn, x) ==
    CASE fn = "is_one" -> (IF PyEq(x, PyInt(1)) THEN "True" ELSE "False")
      [] fn = "positive" -> PyLt(PyInt(0), x)

\* Qualifiers
Lit(val) == [kind |-> "lit", val |-> val, ops |-> <<>>, fn |-> ""]
Ops(ops) == [kind |-> "ops", val |-> Absent, ops |-> ops, fn |-> ""]
Fn(fn) == [kind |-> "fn", val |-> Absent, ops |-> <<>>, fn |-> fn]

-----------------------------------------------------------------------------
(* _check_record *)

\* CheckOps reading record[key] before it looks the operator up
RECURSIVE CheckOpsReadFirst(_, _, _)
CheckOpsReadFirst(ops, x, j) ==
    IF j > Len(ops) THEN "True"
    ELSE IF x = Absent THEN "KeyError"
    ELSE IF ops[j].op \notin OPERATORS THEN "ValueError"
    ELSE LET r == ApplyOperator(ops[j].op, x, ops[j].val)
         IN  IF r = "True" THEN CheckOpsReadFirst(ops, x, j + 1) ELSE r

\* One dict qualifier: its (op, val) items from position j on, against
\* x = record[key] (Absent when the key is not in the record).  The operator
\* is looked up before record[key] is read.
RECURSIVE CheckOps(_, _, _)
CheckOps(ops, x, j) ==
    IF j > Len(ops) THEN "True"
    ELSE IF ops[j].op \notin OPERATORS THEN "ValueError"
    ELSE IF x = Absent THEN "KeyError"
    ELSE LET r == ApplyOperator(ops[j].op, x, ops[j].val)
         IN  IF r = "True" THEN CheckOps(ops, x, j + 1) ELSE r

\* CheckQual with a missing key read as a value equal to nothing (record.get)
CheckQualPermissive(qual, x) ==
    CASE qual.kind = "ops" ->
           (IF x = Absent /\ Len(qual.ops) > 0 /\ qual.ops[1].op \in OPERATORS
            THEN "False" ELSE CheckOps(qual.ops, x, 1))
      [] qual.kind = "fn" ->
           (IF x = Absent THEN "False" ELSE CallFunction(qual.fn, x))
      [] qual.kind = "lit" ->
           (IF x = Absent THEN "False"
            ELSE IF ~PyEq(x, qual.val) THEN "False" ELSE "True")

\* One (key, qual) item of qr against x = record[key]
CheckQual(qual, x) ==
    CASE qual.kind = "ops" -> CheckOps(qual.ops, x, 1)
      [] qual.kind = "fn" ->
           (IF x = Absent THEN "KeyError" ELSE CallFunction(qual.fn, x))
      [] qual.kind = "lit" ->
           (IF x = Absent THEN "KeyError"
            ELSE IF ~PyEq(x, qual.val) THEN "False" ELSE "True")

RECURSIVE CheckItems(_, _, _)
CheckItems(q, record, k) ==
    IF k > Len(q) THEN "True"
    ELSE LET r == CheckQual(q[k].qual, record[q[k].key])
         IN  IF r = "True" THEN CheckItems(q, record, k + 1) ELSE r

\* _check_record(qr, record): "True", "False", or the exception raised
CheckRecord(q, record) == CheckItems(q, record, 1)

Raised(out) == out \notin {"True", "False"}

-----------------------------------------------------------------------------
(* jque.__init__, jque.query, _parallel_query *)

NoLimit == [none |-> TRUE, n |-> 0]
Lim(n) == [none |-> FALSE, n |-> n]

Min(x, y) == IF x <= y THEN x ELSE y

\* jque.__init__(d, parallel): the object built from a list (pandas = FALSE)
\* or from a DataFrame (pandas = TRUE)
JqueInit(d, par, pandas) == [data |-> d, parallel |-> par, is_pandas |-> pandas]

NoReturn == [kind |-> "none", val |-> <<>>, err |-> ""]
RaisedError(e) == [kind |-> "error", val |-> <<>>, err |-> e]
\* the end of query: `return jque(filtered)` when wrap, else `return filtered`
Returned(f, w) == [kind |-> IF w THEN "jque" ELSE "list", val |-> f, err |-> ""]

\* self._iter_items(self.data) as the iterable of the for statement.  The
\* lambda's body is the whole conditional expression: for a DataFrame it is
\* the list of rows, otherwise it is the type `list` itself, which is not
\* iterable.
IterItems(d, pandas) ==
    IF pandas THEN [ok |-> TRUE, items |-> d] ELSE [ok |-> FALSE, items |-> <<>>]

\* data[i] in _parallel_query: an element of a list; on a DataFrame an integer
\* index is looked up among the column labels (the field names), which fails.
GetItem(d, pandas, j) ==
    IF pandas THEN [ok |-> FALSE, item |-> d[j]] ELSE [ok |-> TRUE, item |-> d[j]]

\* ZipFilter without the `if r`
ZipFilterKeepAll(d, r) == SubSeq(d, 1, Min(Len(d), Len(r)))

\* [d for d, r in zip(self.data, results) if r].  zip stops at the shorter
\* argument; for a DataFrame it pairs column labels, and is reached only with
\* no results at all.
RECURSIVE ZipFilter(_, _)
ZipFilter(d, r) ==
    IF Len(d) = 0 \/ Len(r) = 0 THEN <<>>
    ELSE (IF Head(r) THEN <<Head(d)>> ELSE <<>>) \o ZipFilter(Tail(d), Tail(r))

\* s[:limit + 1]
SliceOffByOne(s, l) ==
    IF l.none THEN s
    ELSE IF l.n + 1 >= 0 THEN SubSeq(s, 1, Min(l.n + 1, Len(s)))
    ELSE SubSeq(s, 1, IF Len(s) + l.n + 1 > 0 THEN Len(s) + l.n + 1 ELSE 0)

\* s[:limit]
Slice(s, l) ==
    IF l.none THEN s
    ELSE IF l.n >= 0 THEN SubSeq(s, 1, Min(l.n, Len(s)))
    ELSE SubSeq(s, 1, IF Len(s) + l.n > 0 THEN Len(s) + l.n ELSE 0)

\* `limit and len(filtered_data) > limit`
LimitReachedStrict(f, l) == ~l.none /\ l.n # 0 /\ Len(f) > l.n

\* `limit and len(filtered_data) >= limit`: None and 0 are falsy
LimitReached(f, l) == ~l.none /\ l.n # 0 /\ Len(f) >= l.n

\* results[i - 1] = out, the index taken one too low
StoreResultShifted(res, j, out) ==
    IF j > 1 THEN [res EXCEPT ![j - 1] = (out = "True")] ELSE res

\* results[i] = out, out the boolean _check_record returned
StoreResult(res, j, out) == [res EXCEPT ![j] = (out = "True")]

NoOrigin == [set |-> FALSE, data |-> <<>>, qr |-> <<>>, limit |-> NoLimit]

\* query entered on the object (d, par, pandas) with arguments (q, w, l)
Enter(d, par, pandas, q, w, l) ==
    /\ data' = d
    /\ parallel' = par
    /\ is_pandas' = pandas
    /\ qr' = q
    /\ wrap' = w
    /\ limit' = l
    /\ i' = 1
    /\ calls' = <<>>
    /\ IF par
       THEN \* _parallel_query: results = [False] * len(data)
            /\ pc' = "par_loop"
            /\ results' = [j \in 1..Len(d) |-> FALSE]
            /\ filtered' = <<>>
            /\ ret' = NoReturn
       ELSE \* filtered_data = []; for record in self._iter_items(self.data)
            /\ results' = <<>>
            /\ filtered' = <<>>
            /\ IF IterItems(d, pandas).ok
               THEN pc' = "seq_loop" /\ ret' = NoReturn
               ELSE pc' = "done" /\ ret' = RaisedError("TypeError")

-----------------------------------------------------------------------------
(* The inputs *)

SeqsUpTo(S, n) == UNION {[1..m -> S] : m \in 0..n}

Item(k, q) == [key |-> k, qual |-> q]
OpItem(o, v) == [op |-> o, val |-> v]

\* predicates over the qualifiers Q: dicts, so no key occurs twice
PredsOver(Q) ==
    {q \in SeqsUpTo([key : Fields, qual : Q], Cardinality(Fields)) :
        \A j, k \in 1..Len(q) : q[j].key = q[k].key => j = k}

Keys(q) == {q[j].key : j \in 1..Len(q)}

\* the records, predicates and limits of the queries
QValues == [a : {Absent, PyInt(1), PyStr(0)}, b : {Absent, PyInt(1)}]
QQuals ==
    { Lit(PyInt(1)),
      Ops(<<OpItem("$gte", PyInt(1))>>),
      Ops(<<OpItem("$bogus", PyInt(1))>>),
      Ops(<<>>) }
QPreds == PredsOver(QQuals)
QChain == {q \in QPreds : Len(q) = 1 /\ q[1].qual \in {Lit(PyInt(1)), Ops(<<OpItem("$gte", PyInt(1))>>)}}
Limits == {NoLimit} \cup {Lim(n) : n \in -1..MaxLimit}

\* the rows of a DataFrame all have the same columns
SameColumns(d) ==
    \A j, k \in 1..Len(d) : \A f \in Fields : (d[j][f] = Absent) <=> (d[k][f] = Absent)

Init ==
    /\ data \in SeqsUpTo(QValues, MaxLen)
    /\ parallel \in BOOLEAN
    /\ is_pandas \in BOOLEAN
    /\ is_pandas => SameColumns(data)
    /\ qr = <<>>
    /\ wrap = FALSE
    /\ limit = NoLimit
    /\ pc = "idle"
    /\ i = 1
    /\ results = <<>>
    /\ filtered = <<>>
    /\ ret = NoReturn
    /\ calls = <<>>
    /\ origin = NoOrigin

\* the caller invokes self.query(q, wrap=w, limit=l)
Query(q, w, l) ==
    /\ pc = "idle"
    /\ Enter(data, parallel, is_pandas, q, w, l)
    /\ origin' = origin

\* _parallel_query, one iteration: results[i] = _check_record(qr, data[i])
ParLoop ==
    /\ pc = "par_loop"
    /\ i <= Len(data)
    /\ LET got == GetItem(data, is_pandas, i)
           out == CheckRecord(qr, got.item)
       IN  IF ~got.ok
           THEN /\ pc' = "done"
                /\ ret' = RaisedError("KeyError")
                /\ UNCHANGED <<i, results, calls>>
           ELSE /\ calls' = Append(calls, [idx |-> i, out |-> out])
                /\ IF Raised(out)
                   THEN /\ pc' = "done"
                        /\ ret' = RaisedError(out)
                        /\ UNCHANGED <<i, results>>
                   ELSE /\ results' = StoreResult(results, i, out)
                        /\ i' = i + 1
                        /\ UNCHANGED <<pc, ret>>
    /\ UNCHANGED <<data, parallel, is_pandas, qr, wrap, limit, filtered, origin>>

\* _parallel_query: the loop is over, `return results`
ParReturn ==
    /\ pc = "par_loop"
    /\ i > Len(data)
    /\ pc' = "par_filter"
    /\ UNCHANGED <<data, parallel, is_pandas, qr, wrap, limit, i, results,
                   filtered, ret, calls, origin>>

\* query, parallel path: filter by the vector, truncate, return
ParFilter ==
    /\ pc = "par_filter"
    /\ filtered' = Slice(ZipFilter(data, results), limit)
    /\ ret' = Returned(filtered', wrap)
    /\ pc' = "done"
    /\ UNCHANGED <<data, parallel, is_pandas, qr, wrap, limit, i, results,
                   calls, origin>>

\* query, sequential path, one iteration of the for loop
SeqLoop ==
    /\ pc = "seq_loop"
    /\ i <= Len(IterItems(data, is_pandas).items)
    /\ LET record == IterItems(data, is_pandas).items[i]
           include == CheckRecord(qr, record)
       IN  /\ calls' = Append(calls, [idx |-> i, out |-> include])
           /\ IF Raised(include)
              THEN /\ pc' = "done"
                   /\ ret' = RaisedError(include)
                   /\ UNCHANGED <<i, filtered>>
              ELSE IF include = "True"
              THEN /\ filtered' = Append(filtered, record)
                   /\ IF LimitReached(filtered', limit)
                      THEN pc' = "seq_return" /\ i' = i
                      ELSE pc' = pc /\ i' = i + 1
                   /\ ret' = ret
              ELSE /\ i' = i + 1
                   /\ UNCHANGED <<pc, filtered, ret>>
    /\ UNCHANGED <<data, parallel, is_pandas, qr, wrap, limit, results, origin>>

\* query, sequential path: the loop is over (exhausted or left by break)
SeqReturn ==
    /\ \/ pc = "seq_return"
       \/ pc = "seq_loop" /\ i > Len(IterItems(data, is_pandas).items)
    /\ ret' = Returned(filtered, wrap)
    /\ pc' = "done"
    /\ UNCHANGED <<data, parallel, is_pandas, qr, wrap, limit, i, results,
                   filtered, calls, origin>>

\* the caller queries the wrapped result of the finished call:
\* result.query(q2, wrap=False), result being jque(filtered)
Chain(q2) ==
    /\ pc = "done"
    /\ ret.kind = "jque"
    /\ ~origin.set
    /\ LET obj == JqueInit(ret.val, FALSE, FALSE)
       IN  Enter(obj.data, obj.parallel, obj.is_pandas, q2, FALSE, NoLimit)
    /\ origin' = [set |-> TRUE, data |-> data, qr |-> qr, limit |-> limit]

Next ==
    \/ \E q \in QPreds, w \in BOOLEAN, l \in Limits : Query(q, w, l)
    \/ ParLoop
    \/ ParReturn
    \/ ParFilter
    \/ SeqLoop
    \/ SeqReturn
    \/ \E q2 \in QChain : Chain(q2)

Spec == Init /\ [][Next]_vars

-----------------------------------------------------------------------------
(* The matcher alone: _check_record(qr, record) called on one record *)

MValues ==
    [a : {Absent, PyInt(0), PyInt(1), PyInt(2), PyStr(0)},
     b : {Absent, PyInt(1), PyStr(0)}]

MOpItems ==
    {OpItem(o, PyInt(1)) : o \in {"$eq", "$neq", "$lt", "$lte", "$gt", "$gte", "$bogus"}}
    \cup {OpItem(o, PyList(<<PyInt(1), PyStr(0)>>)) : o \in {"$in", "$nin"}}

\* dict qualifiers of exactly n items: no operator occurs twice
Clauses(n) ==
    {c \in [1..n -> MOpItems] : \A j, k \in 1..n : c[j].op = c[k].op => j = k}

\* qualifiers holding n operator items
MQuals(n) ==
    IF n = 0
    THEN {Lit(PyInt(1)), Lit(PyStr(0)), Fn("is_one"), Fn("positive"), Ops(<<>>)}
    ELSE {Ops(c) : c \in Clauses(n)}

\* predicates holding at most MaxOps operator items
MPreds ==
    {<<>>}
    \cup UNION {{<<Item(k, q)>> : k \in Fields, q \in MQuals(n)} : n \in 0..MaxOps}
    \cup UNION {{<<Item(k[1], q1), Item(k[2], q2)>> :
                    k \in {kk \in Fields \X Fields : kk[1] # kk[2]},
                    q1 \in MQuals(n[1]), q2 \in MQuals(n[2])} :
                 n \in {m \in (0..MaxOps) \X (0..MaxOps) : m[1] + m[2] <= MaxOps}}

InitMatch ==
    /\ data \in [1..1 -> MValues]
    /\ qr \in MPreds
    /\ parallel = FALSE
    /\ is_pandas = FALSE
    /\ wrap = FALSE
    /\ limit = NoLimit
    /\ pc = "match"
    /\ i = 1
    /\ results = <<>>
    /\ filtered = <<>>
    /\ ret = NoReturn
    /\ calls = <<>>
    /\ origin = NoOrigin

\* the caller invokes _check_record(qr, data[1])
Match ==
    /\ pc = "match"
    /\ calls' = Append(calls, [idx |-> i, out |-> CheckRecord(qr, data[i])])
    /\ pc' = "matched"
    /\ UNCHANGED <<data, parallel, is_pandas, qr, wrap, limit, i, results,
                   filtered, ret, origin>>

NextMatch == Match

SpecMatch == InitMatch /\ [][NextMatch]_vars

-----------------------------------------------------------------------------
(* The matching semantics the claims state, written without the matcher *)

Comparable(x, y) == x.t = y.t /\ x.t \in {"int", "str"}

Member(x, y) ==
    \/ y.t = "list" /\ \E j \in 1..Len(y.xs) : y.xs[j] = x
    \/ y.t = "str" /\ x.t = "str" /\ x.v = y.v

\* the operator table of the documentation: op holds of (x, y)
Holds(op, x, y) ==
    \/ op = "$eq" /\ x = y
    \/ op = "$neq" /\ x # y
    \/ op = "$lt" /\ Comparable(x, y) /\ x.v < y.v
    \/ op = "$lte" /\ Comparable(x, y) /\ x.v <= y.v
    \/ op = "$gt" /\ Comparable(x, y) /\ x.v > y.v
    \/ op = "$gte" /\ Comparable(x, y) /\ x.v >= y.v
    \/ op = "$in" /\ Member(x, y)
    \/ op = "$nin" /\ ~Member(x, y)

\* the (op, val) item e holds of the value x of the record's field
EntryHolds(e, x) == e.op \in OPERATORS /\ x # Absent /\ Holds(e.op, x, e.val)

\* the item it = (key, qual) of a predicate passes on the record r
FieldPasses(it, r) ==
    LET x == r[it.key]
    IN  CASE it.qual.kind = "lit" -> x # Absent /\ x = it.qual.val
          [] it.qual.kind = "fn" -> x # Absent /\ CallFunction(it.qual.fn, x) = "True"
          [] it.qual.kind = "ops" ->
               \A j \in 1..Len(it.qual.ops) : EntryHolds(it.qual.ops[j], x)

Satisfies(q, r) == \A k \in 1..Len(q) : FieldPasses(q[k], r)

HasUnknownOperator(q) ==
    \E k \in 1..Len(q) : \E j \in 1..Len(q[k].qual.ops) :
        q[k].qual.ops[j].op \notin OPERATORS

\* evaluation in iteration order arrives at an unknown operator: every item
\* before it has passed
ReachesUnknownOperator(q, r) ==
    \E k \in 1..Len(q) : \E j \in 1..Len(q[k].qual.ops) :
        /\ q[k].qual.ops[j].op \notin OPERATORS
        /\ \A k2 \in 1..(k - 1) : FieldPasses(q[k2], r)
        /\ \A j2 \in 1..(j - 1) : EntryHolds(q[k].qual.ops[j2], r[q[k].key])

ReferencesAbsentField(q, r) == \E k \in 1..Len(q) : r[q[k].key] = Absent

\* the item reads record[key]: a literal, a function, or a dict whose first
\* operator is known
ReadsField(qual) ==
    \/ qual.kind \in {"lit", "fn"}
    \/ qual.kind = "ops" /\ Len(qual.ops) > 0 /\ qual.ops[1].op \in OPERATORS

\* evaluation in iteration order arrives at a read of an absent field
ReachesAbsentField(q, r) ==
    \E k \in 1..Len(q) :
        /\ r[q[k].key] = Absent
        /\ ReadsField(q[k].qual)
        /\ \A k2 \in 1..(k - 1) : FieldPasses(q[k2], r)

-----------------------------------------------------------------------------
(* The claims *)

HasReturned == pc = "done" /\ ret.kind \in {"list", "jque"}

\* s is a subsequence of d (same relative order, no position used twice)
\* whose elements all satisfy q
IsMatchingSubsequence(s, d, q) ==
    \E f \in [1..Len(s) -> 1..Len(d)] :
        /\ \A j, k \in 1..Len(s) : j < k => f[j] < f[k]
        /\ \A j \in 1..Len(s) : s[j] = d[f[j]] /\ Satisfies(q, d[f[j]])

AllRecordsEvaluate(q, d) == \A j \in 1..Len(d) : ~Raised(CheckRecord(q, d[j]))

Matching(q, d) == SelectSeq(d, LAMBDA r : CheckRecord(q, r) = "True")

FirstK(s, k) == SubSeq(s, 1, Min(k, Len(s)))

\* C2 (as claimed): in sequential mode, on a list of records none of which
\* makes the matcher raise, a query with limit k >= 1 returns the first k
\* matching records (all of them when there are fewer, or when no limit is
\* given).
C2_SequentialLimit ==
    ( /\ pc = "done"
      /\ ~parallel
      /\ ~origin.set
      /\ AllRecordsEvaluate(qr, data)
      /\ limit.none \/ limit.n >= 1 )
    => /\ ret.kind \in {"list", "jque"}
       /\ ret.val = IF limit.none THEN Matching(qr, data)
                                  ELSE FirstK(Matching(qr, data), limit.n)

\* C3: the vector _parallel_query returns has one boolean per record, and
\* the boolean at each index is what _check_record answers for the record at
\* that index.
C3_VectorAligned ==
    pc = "par_filter" =>
        /\ Len(results) = Len(data)
        /\ \A j \in 1..Len(data) : results[j] = (CheckRecord(qr, data[j]) = "True")

\* C3 witness: the vector came back for two records, the first not matching
\* and the second matching.
C3_Witness ==
    /\ pc = "par_filter"
    /\ Len(data) = 2
    /\ results = <<FALSE, TRUE>>

\* C4 (as claimed): a predicate holding an unknown operator raises the
\* unknown-operator error on every record it is matched against.
C4_UnknownOperatorAlwaysRaises ==
    \A p \in 1..Len(calls) :
        HasUnknownOperator(qr) => calls[p].out = "ValueError"

\* C4 (amended): the matcher raises the unknown-operator error exactly when
\* evaluation in iteration order arrives at the unknown operator, that is
\* when every field and every operator item before it has passed; a record
\* that fails or raises on an earlier item gets that earlier outcome.
C4_UnknownOperatorRaisesWhenReached ==
    \A p \in 1..Len(calls) :
        calls[p].out = "ValueError" <=> ReachesUnknownOperator(qr, data[calls[p].idx])

\* C4 witness: the matcher raised on an unknown operator standing in the
\* second field of the predicate, after the first field passed.
C4_Witness ==
    /\ pc = "matched"
    /\ calls[1].out = "ValueError"
    /\ Len(qr) = 2
    /\ ~HasUnknownOperator(<<qr[1]>>)
    /\ qr[1].qual.kind = "ops"
    /\ Len(qr[1].qual.ops) = 1

C6_AbsentFieldAlwaysRaises ==
    \A p \in 1..Len(calls) :
        ReferencesAbsentField(qr, data[calls[p].idx]) => calls[p].out = "KeyError"

\* C6 (amended): the matcher raises the lookup error exactly when evaluation
\* in iteration order arrives at a read of the absent field (every earlier
\* field passed, and the qualifier is a literal, a function or a dict whose
\* first operator is known); whatever the matcher raises ends the query, which
\* raises the same error and returns no records.
C6_AbsentFieldRaisesWhenRead ==
    \A p \in 1..Len(calls) :
        /\ calls[p].out = "KeyError" <=> ReachesAbsentField(qr, data[calls[p].idx])
        /\ Raised(calls[p].out) =>
               /\ p = Len(calls)
               /\ pc = "done"
               /\ ret = RaisedError(calls[p].out)

\* C6 witness: the second record lacks a field the predicate reads; the
\* first record had matched, and the query raised the lookup error.
C6_Witness ==
    /\ pc = "done"
    /\ Len(calls) = 2
    /\ calls[1].out = "True"
    /\ calls[2].out = "KeyError"
    /\ ret = RaisedError("KeyError")

\* C7 (as claimed): querying the wrapped result of query(P1) with P2, the
\* fields of P1 and P2 disjoint, returns the records one pass over the
\* original records returns for the conjunction of P1 and P2.
C7_ChainEqualsConjunction ==
    ( /\ pc = "done"
      /\ origin.set
      /\ origin.limit.none
      /\ Keys(origin.qr) \cap Keys(qr) = {}
      /\ AllRecordsEvaluate(origin.qr \o qr, origin.data) )
    => /\ ret.kind = "list"
       /\ ret.val = Matching(origin.qr \o qr, origin.data)

\* every record was handed to the matcher, once and in order
EvaluatedAll ==
    /\ Len(calls) = Len(data)
    /\ \A p \in 1..Len(calls) : calls[p].idx = p

\* C8: in parallel mode the limit is applied only after the matcher has run
\* on every record: nothing is filtered before that, a query that returns has
\* evaluated every record without error, and with a limit k >= 0 it returns
\* the first k records of the unlimited result.
C8_ParallelEvaluatesAllThenTruncates ==
    parallel =>
        /\ pc \in {"par_loop", "par_filter"} => filtered = <<>>
        /\ pc = "par_filter" => EvaluatedAll
        /\ HasReturned =>
              /\ EvaluatedAll
              /\ AllRecordsEvaluate(qr, data)
              /\ limit.none => ret.val = Matching(qr, data)
              /\ (~limit.none /\ limit.n >= 0) =>
                     ret.val = FirstK(Matching(qr, data), limit.n)

\* C8 witness: a parallel query with limit 1 returned one record of two
\* matching ones, both evaluated.
C8_Witness ==
    /\ parallel
    /\ HasReturned
    /\ limit = Lim(1)
    /\ Len(calls) = 2
    /\ Len(Matching(qr, data)) = 2
    /\ Len(ret.val) = 1

MatchesBefore(p) == Cardinality({p2 \in 1..(p - 1) : calls[p2].out = "True"})

C10_SequentialEqualsParallel ==
    ( /\ pc = "done"
      /\ ~parallel
      /\ ~is_pandas
      /\ ~origin.set
      /\ ~wrap
      /\ AllRecordsEvaluate(qr, data) )
    => ret = Returned(Slice(Matching(qr, data), limit), FALSE)

====
